---------------------------- MODULE Spec2Model ----------------------------
(***************************************************************************)
(* useGoogleAuth (src/src/index.ts): a React hook that injects the Google  *)
(* platform script into document.head, loads and initialises gapi.auth2,   *)
(* and exposes signIn / signOut whose vendor outcomes are forwarded to the *)
(* caller's callbacks.                                                     *)
(*                                                                         *)
(* The state is one document: the hook instances mounted in it, the script *)
(* element and its listeners, the vendor's auth2 library and GoogleAuth    *)
(* singleton, and the promises in flight.  Every hook instance of the      *)
(* document is given the same properties (props).  A component that is     *)
(* unmounted and mounted again is a new hook instance with fresh React     *)
(* state, so a remount is the mount of a fresh instance id.                *)
(*                                                                         *)
(* ev is the event handled by the last step and fired is the sequence of   *)
(* calls that handler made, in order: caller callbacks, vendor calls,      *)
(* React state setters, and a final TypeError entry when the handler threw.*)
(***************************************************************************)
EXTENDS Integers, Sequences, FiniteSets, TLC

VARIABLES
    props,          \* the properties given to useGoogleAuth (index.ts:12-29)
    life,           \* per instance: "fresh", "mounted", "unmounted"
    gapiLoaded,     \* per instance: React state of index.ts:31
    authLoaded,     \* per instance: React state of index.ts:32
    initEffect,     \* per instance: the [gapiLoaded] effect is due to run
    reloadEffect,   \* per instance: the [authLoaded] effect is due to run
    scripts,        \* elements with id 'google-script' in document.head, by injector
    scriptState,    \* "none", "loading", "loaded", "error"
    loadListeners,  \* instances whose 'load' listener is on the script element
    errorListeners, \* instances whose onLoadFailure is the script's 'error' listener
    loadReq,        \* per instance: its gapi.load('auth2') request
    authInst,       \* gapi.auth2.getAuthInstance(): "none", "pending", "resolved", "rejected"
    currentUser,    \* the vendor's currentUser.get(): a GoogleUser
    listeners,      \* instances whose onLoginChange the vendor's isSignedIn notifies
    initThen,       \* per instance: handlers waiting on the GoogleAuth thenable
    reloadP,        \* per instance: pending reloadAuthResponse() promise
    signInP,        \* per instance: number of pending vendor signIn promises
    signOutA,       \* per instance: signOut calls waiting on googleAuth.then
    signOutV,       \* per instance: pending vendor signOut promises
    reports,        \* per instance: onLoginSuccess calls made without a signIn
    ev,             \* the event the last step handled
    fired           \* the calls the last step's handler made, in order

vars == <<props, life, gapiLoaded, authLoaded, initEffect, reloadEffect, scripts,
          scriptState, loadListeners, errorListeners, loadReq, authInst,
          currentUser, listeners, initThen, reloadP, signInP, signOutA, signOutV,
          reports, ev, fired>>

-----------------------------------------------------------------------------
(* Bounds *)

\* number of hook instance ids (mounts over the life of the document)
MaxInstances == 2
\* number of signIn and signOut calls of the document in flight at a time
MaxPending == 1

Instances == 1..MaxInstances

-----------------------------------------------------------------------------
(* Values *)

Undefined == "undefined"

Callbacks == {"onLoadFailure", "onLoginChange", "onLoginFailure",
              "onLoginSuccess", "onLogoutFailure", "onLogoutSuccess"}

\* The errors the vendor and the browser hand to the hook, one per source.
ScriptErrorEvent == "ErrorEvent(script)"
Auth2LoadErr == "Error(gapi.load)"
InitErr == "Error(auth2.init)"
SignInErr == "Error(signIn)"
SignOutErr == "Error(signOut)"
ReloadErr == "Error(reloadAuthResponse)"

\* GoogleUser objects of the vendor.  Users are the signed-in ones; the
\* GoogleUser of a signed-out session has no basic profile (getBasicProfile()
\* is undefined) and no tokens.
MkUser(n) ==
    [kind |-> "GoogleUser", hasProfile |-> TRUE,
     basicProfile |-> [id |-> "id" \o n, imageUrl |-> "img" \o n,
                       email |-> "email" \o n, name |-> "name" \o n,
                       givenName |-> "given" \o n, familyName |-> "family" \o n],
     authResponse |-> [kind |-> "AuthResponse", access_token |-> "at" \o n,
                       id_token |-> "idt" \o n]]

Users == {MkUser("1"), MkUser("2")}

SignedOutUser ==
    [kind |-> "GoogleUser", hasProfile |-> FALSE,
     basicProfile |-> [id |-> Undefined, imageUrl |-> Undefined,
                       email |-> Undefined, name |-> Undefined,
                       givenName |-> Undefined, familyName |-> Undefined],
     authResponse |-> [kind |-> "AuthResponse", access_token |-> Undefined,
                       id_token |-> Undefined]]

\* googleAuth.isSignedIn.get()
IsSignedIn == currentUser \in Users


-----------------------------------------------------------------------------
(* The properties given to the hook, and their destructuring defaults *)

\* A record with the optional field k absent, or present with a value of vals.
OptField(k, vals) == {<<>>} \cup {k :> v : v \in vals}

\* The property k as the hook body sees it after the destructuring of
\* index.ts:12-29: the given value, or dflt when the caller gave none.
Prop(k, dflt) == IF k \in DOMAIN props THEN props[k] ELSE dflt

clientId == props.clientId
cookiePolicy == Prop("cookiePolicy", "single_host_origin")
hostedDomains == Prop("hostedDomains", Undefined)
fetchBasicProfile == Prop("fetchBasicProfile", Undefined)
prompt == Prop("prompt", "select_account")
redirectUri == Prop("redirectUri", Undefined)
scope == Prop("scope", <<"profile">>)
stayLoggedIn == Prop("stayLoggedIn", FALSE)
uxMode == Prop("uxMode", "popup")

\* Whether the caller supplied the callback cb.
Supplied(cb) == cb \in props.callbacks

\* The sets of supplied callbacks: none, all, each callback alone, and all
\* but each callback.
CallbackSets ==
    {{}, Callbacks} \cup {{cb} : cb \in Callbacks}
                    \cup {Callbacks \ {cb} : cb \in Callbacks}

\* Properties that vary which callbacks are supplied, the configuration left
\* at its defaults.
CallbackProps ==
    {[clientId |-> "client-1", callbacks |-> cbs] @@ s :
        cbs \in CallbackSets, s \in OptField("stayLoggedIn", {TRUE})}

\* Properties that vary the configuration, every callback supplied.  An
\* absent property takes its default: stayLoggedIn false, uxMode 'popup',
\* scope ['profile'], cookiePolicy 'single_host_origin'.
ConfigProps ==
    {[clientId |-> "client-1", callbacks |-> Callbacks] @@ s @@ u @@ r @@ o :
        s \in OptField("stayLoggedIn", {TRUE}),
        u \in OptField("uxMode", {"redirect"}),
        r \in OptField("redirectUri", {"https://app.example/cb"}),
        o \in {<<>>, [scope |-> <<"profile", "email">>, cookiePolicy |-> "none",
                      fetchBasicProfile |-> TRUE, hostedDomains |-> "example.com",
                      prompt |-> "consent"]}}

-----------------------------------------------------------------------------
(* Pure functions of the hook *)

\* Array.prototype.join(' ') of index.ts:69 and index.ts:157
RECURSIVE Join(_)
Join(arr) ==
    IF arr = <<>> THEN ""
    ELSE IF Len(arr) = 1 THEN arr[1]
    ELSE arr[1] \o " " \o Join(Tail(arr))

\* redirect_uri of the client configuration (index.ts:68)
ConfigRedirectUriMut == redirectUri
ConfigRedirectUri == IF uxMode = "redirect" THEN redirectUri ELSE ""

\* clientConfig of index.ts:63-75
ClientConfig ==
    [client_id |-> clientId,
     cookie_policy |-> cookiePolicy,
     fetch_basic_profile |-> fetchBasicProfile,
     hosted_domains |-> hostedDomains,
     redirect_uri |-> ConfigRedirectUri,
     scope |-> Join(scope),
     ux_mode |-> uxMode]
    @@ (IF stayLoggedIn THEN [access_type |-> "offline"] ELSE <<>>)

\* signInOptions of index.ts:154-159
SignInOptions ==
    [prompt |-> prompt,
     redirect_uri |-> redirectUri,
     scope |-> Join(scope),
     ux_mode |-> uxMode]

\* One entry of fired: the call of cb made on behalf of instance i with arg.
Call(cb, i, arg) == [cb |-> cb, inst |-> i, arg |-> arg]

\* The handler threw: what is not a function / of what a property was read.
Throw(i, what) == Call("TypeError", i, what)

Threw(calls) == calls # <<>> /\ calls[Len(calls)].cb = "TypeError"

\* Calls a caller callback the way an unguarded call site does: a TypeError
\* when the callback was not supplied.
Invoke(cb, i, arg) ==
    IF Supplied(cb) THEN <<Call(cb, i, arg)>> ELSE <<Throw(i, cb)>>

\* Calls a caller callback behind an `if (cb)` guard.
InvokeIf(cb, i, arg) ==
    IF Supplied(cb) THEN <<Call(cb, i, arg)>> ELSE <<>>

\* The object handed to onLoginSuccess (index.ts:200-212)
SuccessPayloadMut(basicProfile, authResponse) ==
    [accessToken |-> authResponse.id_token,
     profile |-> [googleId |-> basicProfile.id,
                  imageUrl |-> basicProfile.imageUrl,
                  email |-> basicProfile.email,
                  name |-> basicProfile.name,
                  givenName |-> basicProfile.givenName,
                  familyName |-> basicProfile.familyName],
     tokenId |-> authResponse.access_token,
     tokenObject |-> authResponse]
SuccessPayload(basicProfile, authResponse) ==
    [accessToken |-> authResponse.access_token,
     profile |-> [googleId |-> basicProfile.id,
                  imageUrl |-> basicProfile.imageUrl,
                  email |-> basicProfile.email,
                  name |-> basicProfile.name,
                  givenName |-> basicProfile.givenName,
                  familyName |-> basicProfile.familyName],
     tokenId |-> authResponse.id_token,
     tokenObject |-> authResponse]

\* handleLoginSuccess (index.ts:195-214).  response.getBasicProfile() and
\* response.getAuthResponse(true) exist on a GoogleUser only; the AuthResponse
\* that reloadAuthResponse() resolves with has neither, so line 196 throws.
\* A signed-out GoogleUser has no basic profile, so basicProfile.getId()
\* throws while the argument of onLoginSuccess is built.
handleLoginSuccess(i, response) ==
    <<Call("handleLoginSuccess", i, response.kind)>> \o
    (IF response.kind # "GoogleUser"
     THEN <<Throw(i, "response.getBasicProfile")>>
     ELSE IF ~Supplied("onLoginSuccess") THEN <<>>
     ELSE IF ~response.hasProfile
     THEN <<Throw(i, "basicProfile.getId")>>
     ELSE <<Call("onLoginSuccess", i,
                 SuccessPayload(response.basicProfile, response.authResponse))>>)

\* The number of onLoginSuccess calls among calls
LoginReports(calls) == Len(SelectSeq(calls, LAMBDA e : e.cb = "onLoginSuccess"))

\* handleLoginFailure (index.ts:216-220)
handleLoginFailure(i, response) == InvokeIf("onLoginFailure", i, response)


-----------------------------------------------------------------------------
(* Helpers of the state machine *)

Event(type, i) == [type |-> type, inst |-> i]

\* The instances of S in the order of their ids, from id n on.
RECURSIVE Ordered(_, _)
Ordered(S, n) ==
    IF n > MaxInstances THEN <<>>
    ELSE (IF n \in S THEN <<n>> ELSE <<>>) \o Ordered(S, n + 1)

\* The vendor tells every isSignedIn listener the new value when the
\* signed-in state changes from the current one to that of user u.
NotifyOne(i, value) == Call("onLoginChange", i, value)
Notify(u) ==
    IF (u \in Users) = IsSignedIn THEN <<>>
    ELSE LET o == Ordered(listeners, 1)
         IN [k \in DOMAIN o |-> NotifyOne(o[k], u \in Users)]

\* document.getElementById('google-script') finds an element (index.ts:38)
ScriptPresentMut == FALSE
ScriptPresent == scripts # {}

\* window.gapi.auth2.getAuthInstance() returns an instance
HasAuthInstanceMut == FALSE
HasAuthInstance == authInst # "none"

\* The 'error' listeners left on the script element by the cleanup of
\* instance i (index.ts:52): onLoadFailure is the function that was added.
ErrorListenersAfterCleanup(i) == errorListeners \ {i}

\* The 'load' listeners left by the cleanup of instance i (index.ts:51): the
\* arrow function passed to removeEventListener is a new function, not the
\* one that was added, so nothing is removed.
LoadListenersAfterCleanup(i) == loadListeners

\* The signIn and signOut calls in flight, over all instances
RECURSIVE Sum(_, _)
Sum(f, n) == IF n > MaxInstances THEN 0 ELSE f[n] + Sum(f, n + 1)
InFlight == Sum(signInP, 1) + Sum(signOutA, 1) + Sum(signOutV, 1)

\* React applies a state setter to a mounted component only.
Mounted(i) == life[i] = "mounted"

\* The guard of the [gapiLoaded] effect (index.ts:62), on the flag's value g
InitEffectRunsMut(g) == TRUE
InitEffectRuns(g) == g

\* The guard of signIn and of signOut (index.ts:150, index.ts:173), on the
\* flag's value a
CallGuardMut(a) == TRUE
CallGuard(a) == a

\* The guard of the [authLoaded] effect (index.ts:224), on the flag's value a
ReloadEffectRuns(a) == a /\ stayLoggedIn

-----------------------------------------------------------------------------
(* Initial state: nothing mounted, no script, no auth instance *)

InitWith(P) ==
    /\ props \in P
    /\ life = [i \in Instances |-> "fresh"]
    /\ gapiLoaded = [i \in Instances |-> FALSE]
    /\ authLoaded = [i \in Instances |-> FALSE]
    /\ initEffect = [i \in Instances |-> FALSE]
    /\ reloadEffect = [i \in Instances |-> FALSE]
    /\ scripts = {}
    /\ scriptState = "none"
    /\ loadListeners = {}
    /\ errorListeners = {}
    /\ loadReq = [i \in Instances |-> "none"]
    /\ authInst = "none"
    /\ currentUser = SignedOutUser
    /\ listeners = {}
    /\ initThen = [i \in Instances |-> "none"]
    /\ reloadP = [i \in Instances |-> FALSE]
    /\ signInP = [i \in Instances |-> 0]
    /\ signOutA = [i \in Instances |-> 0]
    /\ signOutV = [i \in Instances |-> 0]
    /\ reports = [i \in Instances |-> 0]
    /\ ev = Event("init", 0)
    /\ fired = <<>>

Init == InitWith(CallbackProps)

InitConfig == InitWith(ConfigProps)

-----------------------------------------------------------------------------
(* Mounting and unmounting (index.ts:37-55) *)

\* A component using the hook mounts: useState gives both flags false, and the
\* three effects run.  The script effect appends the script element with its
\* two listeners unless an element with id 'google-script' is already there;
\* addEventListener('error', undefined) adds nothing.  The other two effects
\* find their flags false and do nothing.
Mount(i) ==
    /\ life[i] = "fresh"
    /\ \A j \in Instances : j < i => life[j] # "fresh"
    /\ life' = [life EXCEPT ![i] = "mounted"]
    /\ IF ~ScriptPresent
       THEN /\ scripts' = scripts \cup {i}
            /\ scriptState' = IF scriptState = "none" THEN "loading" ELSE scriptState
            /\ loadListeners' = loadListeners \cup {i}
            /\ errorListeners' = IF Supplied("onLoadFailure")
                                 THEN errorListeners \cup {i} ELSE errorListeners
            /\ fired' = <<Call("document.head.appendChild", i, "google-script")>>
       ELSE /\ UNCHANGED <<scripts, scriptState, loadListeners, errorListeners>>
            /\ fired' = <<>>
    /\ loadReq' = IF InitEffectRuns(gapiLoaded[i])
                  THEN [loadReq EXCEPT ![i] = "pending"] ELSE loadReq
    /\ ev' = Event("mount", i)
    /\ UNCHANGED <<props, reports, gapiLoaded, authLoaded, initEffect, reloadEffect,
                   authInst, currentUser, listeners, initThen, reloadP, signInP,
                   signOutA, signOutV>>

\* The component unmounts: the cleanup of the script effect runs when the
\* effect returned one, that is when this instance appended the script; the
\* effects that were due no longer run.  The script element stays.
Unmount(i) ==
    /\ Mounted(i)
    /\ life' = [life EXCEPT ![i] = "unmounted"]
    /\ IF i \in scripts
       THEN /\ loadListeners' = LoadListenersAfterCleanup(i)
            /\ errorListeners' = ErrorListenersAfterCleanup(i)
       ELSE UNCHANGED <<loadListeners, errorListeners>>
    /\ initEffect' = [initEffect EXCEPT ![i] = FALSE]
    /\ reloadEffect' = [reloadEffect EXCEPT ![i] = FALSE]
    /\ ev' = Event("unmount", i)
    /\ fired' = <<>>
    /\ UNCHANGED <<props, reports, gapiLoaded, authLoaded, scripts, scriptState, loadReq,
                   authInst, currentUser, listeners, initThen, reloadP, signInP,
                   signOutA, signOutV>>

-----------------------------------------------------------------------------
(* The script element's events (index.ts:45-46) *)

\* The 'load' listener of instance i: setGapiLoaded(true)
OnScriptLoad(i) == Call("setGapiLoaded", i, TRUE)

\* The 'error' listener of instance i: onLoadFailure itself
OnScriptError(i) == Call("onLoadFailure", i, ScriptErrorEvent)

\* The script loads: every 'load' listener calls setGapiLoaded(true), which
\* re-renders a mounted instance and makes its [gapiLoaded] effect due.
ScriptLoad ==
    /\ scriptState = "loading"
    /\ scriptState' = "loaded"
    /\ gapiLoaded' = [i \in Instances |->
                        IF i \in loadListeners /\ Mounted(i) THEN TRUE ELSE gapiLoaded[i]]
    /\ initEffect' = [i \in Instances |->
                        IF i \in loadListeners /\ Mounted(i) /\ ~gapiLoaded[i]
                        THEN TRUE ELSE initEffect[i]]
    /\ ev' = Event("scriptLoad", 0)
    /\ fired' = LET o == Ordered(loadListeners, 1)
                IN [k \in DOMAIN o |-> OnScriptLoad(o[k])]
    /\ UNCHANGED <<props, reports, life, authLoaded, reloadEffect, scripts, loadListeners,
                   errorListeners, loadReq, authInst, currentUser, listeners,
                   initThen, reloadP, signInP, signOutA, signOutV>>

\* The script fails to load: every 'error' listener is called with the event.
ScriptError ==
    /\ scriptState = "loading"
    /\ scriptState' = "error"
    /\ ev' = Event("scriptError", 0)
    /\ fired' = LET o == Ordered(errorListeners, 1)
                IN [k \in DOMAIN o |-> OnScriptError(o[k])]
    /\ UNCHANGED <<props, reports, life, gapiLoaded, authLoaded, initEffect, reloadEffect,
                   scripts, loadListeners, errorListeners, loadReq, authInst,
                   currentUser, listeners, initThen, reloadP, signInP, signOutA,
                   signOutV>>

-----------------------------------------------------------------------------
(* Loading and initialising gapi.auth2 (index.ts:61-143) *)

\* The [gapiLoaded] effect runs after the re-render that setGapiLoaded(true)
\* caused: it builds clientConfig and calls gapi.load('auth2', ...).
RunInitEffect(i) ==
    /\ Mounted(i)
    /\ initEffect[i]
    /\ initEffect' = [initEffect EXCEPT ![i] = FALSE]
    /\ IF InitEffectRuns(gapiLoaded[i])
       THEN /\ loadReq' = [loadReq EXCEPT ![i] = "pending"]
            /\ fired' = <<Call("gapi.load", i, "auth2")>>
       ELSE /\ UNCHANGED loadReq
            /\ fired' = <<>>
    /\ ev' = Event("initEffect", i)
    /\ UNCHANGED <<props, reports, life, gapiLoaded, authLoaded, reloadEffect, scripts,
                   scriptState, loadListeners, errorListeners, authInst,
                   currentUser, listeners, initThen, reloadP, signInP, signOutA,
                   signOutV>>

\* Code of the page other than the hook initialises gapi.auth2 itself, so
\* that getAuthInstance() returns an instance when the hook's auth2 callback
\* runs (the case of index.ts:115-136).
PageInitsAuth ==
    /\ scriptState = "loaded"
    /\ authInst = "none"
    /\ authInst' = "pending"
    /\ ev' = Event("pageInit", 0)
    /\ fired' = <<>>
    /\ UNCHANGED <<props, reports, life, gapiLoaded, authLoaded, initEffect, reloadEffect,
                   scripts, scriptState, loadListeners, errorListeners, loadReq,
                   currentUser, listeners, initThen, reloadP, signInP, signOutA,
                   signOutV>>

\* The success callback of gapi.load('auth2') (index.ts:78-137):
\* setAuthLoaded(true), then auth2.init(clientConfig) when there is no auth
\* instance, else handlers on the existing instance.
Auth2Loaded(i) ==
    /\ loadReq[i] = "pending"
    /\ loadReq' = [loadReq EXCEPT ![i] = "ok"]
    /\ authLoaded' = IF Mounted(i) THEN [authLoaded EXCEPT ![i] = TRUE] ELSE authLoaded
    /\ reloadEffect' = IF Mounted(i) /\ ~authLoaded[i]
                       THEN [reloadEffect EXCEPT ![i] = TRUE] ELSE reloadEffect
    /\ IF ~HasAuthInstance
       THEN /\ authInst' = "pending"
            /\ initThen' = [initThen EXCEPT ![i] = "init"]
            /\ fired' = <<Call("setAuthLoaded", i, TRUE),
                          Call("gapi.auth2.init", i, ClientConfig)>>
       ELSE /\ UNCHANGED authInst
            /\ initThen' = [initThen EXCEPT ![i] = "exist"]
            /\ fired' = <<Call("setAuthLoaded", i, TRUE)>>
    /\ ev' = Event("auth2Loaded", i)
    /\ UNCHANGED <<props, reports, life, gapiLoaded, initEffect, scripts, scriptState,
                   loadListeners, errorListeners, currentUser, listeners, reloadP,
                   signInP, signOutA, signOutV>>

\* The error callback of gapi.load('auth2') (index.ts:138-140): onLoadFailure
\* is called without a guard.
Auth2LoadError(i) ==
    /\ loadReq[i] = "pending"
    /\ loadReq' = [loadReq EXCEPT ![i] = "err"]
    /\ ev' = Event("auth2LoadError", i)
    /\ fired' = Invoke("onLoadFailure", i, Auth2LoadErr)
    /\ UNCHANGED <<props, reports, life, gapiLoaded, authLoaded, initEffect, reloadEffect,
                   scripts, scriptState, loadListeners, errorListeners, authInst,
                   currentUser, listeners, initThen, reloadP, signInP, signOutA,
                   signOutV>>

\* The vendor finishes initialising the auth instance and restores the
\* session: the user is signed in or not.
AuthResolve ==
    /\ authInst = "pending"
    /\ authInst' = "resolved"
    /\ \E u \in Users \cup {SignedOutUser} : currentUser' = u
    /\ ev' = Event("authResolved", 0)
    /\ fired' = <<>>
    /\ UNCHANGED <<props, reports, life, gapiLoaded, authLoaded, initEffect, reloadEffect,
                   scripts, scriptState, loadListeners, errorListeners, loadReq,
                   listeners, initThen, reloadP, signInP, signOutA, signOutV>>

\* The vendor fails to initialise the auth instance.
AuthReject ==
    /\ authInst = "pending"
    /\ authInst' = "rejected"
    /\ ev' = Event("authRejected", 0)
    /\ fired' = <<>>
    /\ UNCHANGED <<props, reports, life, gapiLoaded, authLoaded, initEffect, reloadEffect,
                   scripts, scriptState, loadListeners, errorListeners, loadReq,
                   currentUser, listeners, initThen, reloadP, signInP, signOutA,
                   signOutV>>

\* The success handler of auth2.init (index.ts:89-103)
OnInitResolved(i) ==
    (IF Supplied("onLoginChange")
     THEN <<Call("isSignedIn.listen", i, "onLoginChange")>> ELSE <<>>)
    \o (IF IsSignedIn THEN handleLoginSuccess(i, currentUser) ELSE <<>>)

\* The failure handler of auth2.init (index.ts:105-111)
OnInitRejected(i) == InvokeIf("onLoadFailure", i, InitErr)

\* The success handler on an existing auth instance (index.ts:119-129).
\* googleAuth.isSignedIn has listen(), not listener(): line 127 throws.
OnExistingResolved(i) ==
    LET login == IF stayLoggedIn THEN handleLoginSuccess(i, currentUser) ELSE <<>>
    IN IF Threw(login) THEN login
       ELSE login \o (IF Supplied("onLoginChange")
                      THEN <<Throw(i, "googleAuth.isSignedIn.listener")>> ELSE <<>>)

\* The failure handler on an existing auth instance (index.ts:130-134)
OnExistingRejected(i) == handleLoginFailure(i, InitErr)

\* The isSignedIn listeners after the handlers of instance i ran on the
\* resolved auth instance: listen() of line 95 registers onLoginChange, the
\* call of line 127 registers nothing.
ListenersAfterInit(i) ==
    IF initThen[i] = "init" /\ Supplied("onLoginChange")
    THEN listeners \cup {i} ELSE listeners

\* The handlers the hook put on the auth instance run once it has settled.
InitSettle(i) ==
    /\ initThen[i] \in {"init", "exist"}
    /\ authInst \in {"resolved", "rejected"}
    /\ initThen' = [initThen EXCEPT ![i] = "settled"]
    /\ IF authInst = "resolved"
       THEN /\ listeners' = ListenersAfterInit(i)
            /\ fired' = IF initThen[i] = "init"
                        THEN OnInitResolved(i) ELSE OnExistingResolved(i)
            /\ ev' = Event(IF initThen[i] = "init"
                           THEN "initResolved" ELSE "existingResolved", i)
       ELSE /\ UNCHANGED listeners
            /\ fired' = IF initThen[i] = "init"
                        THEN OnInitRejected(i) ELSE OnExistingRejected(i)
            /\ ev' = Event(IF initThen[i] = "init"
                           THEN "initRejected" ELSE "existingRejected", i)
    /\ reports' = [reports EXCEPT ![i] = @ + LoginReports(fired')]
    /\ UNCHANGED <<props, life, gapiLoaded, authLoaded, initEffect, reloadEffect,
                   scripts, scriptState, loadListeners, errorListeners, loadReq,
                   authInst, currentUser, reloadP, signInP, signOutA, signOutV>>

-----------------------------------------------------------------------------
(* The stayLoggedIn effect (index.ts:222-237) *)

\* The [authLoaded] effect runs after the re-render that setAuthLoaded(true)
\* caused: with stayLoggedIn and a signed-in user it calls
\* currentUser.get().reloadAuthResponse().
RunReloadEffect(i) ==
    /\ Mounted(i)
    /\ reloadEffect[i]
    /\ reloadEffect' = [reloadEffect EXCEPT ![i] = FALSE]
    /\ IF ReloadEffectRuns(authLoaded[i]) /\ HasAuthInstance /\ IsSignedIn
       THEN /\ reloadP' = [reloadP EXCEPT ![i] = TRUE]
            /\ fired' = <<Call("reloadAuthResponse", i, Undefined)>>
       ELSE /\ UNCHANGED reloadP
            /\ fired' = <<>>
    /\ ev' = Event("reloadEffect", i)
    /\ UNCHANGED <<props, reports, life, gapiLoaded, authLoaded, initEffect, scripts,
                   scriptState, loadListeners, errorListeners, loadReq, authInst,
                   currentUser, listeners, initThen, signInP, signOutA, signOutV>>

\* What reloadAuthResponse() resolves with: the vendor documents the new
\* AuthResponse; the handler of index.ts:232 treats the value as a GoogleUser.
\* Both kinds of value are outcomes.
ReloadResult(kind) ==
    IF kind = "GoogleUser" THEN currentUser ELSE currentUser.authResponse

\* reloadAuthResponse() resolves (index.ts:232): the vendor refreshed the
\* token of the signed-in user.  For a session that was signed out meanwhile
\* there is no token to refresh and the promise rejects.
ReloadResolve(i) ==
    /\ reloadP[i]
    /\ IsSignedIn
    /\ reloadP' = [reloadP EXCEPT ![i] = FALSE]
    /\ \E kind \in {"GoogleUser", "AuthResponse"} :
        fired' = handleLoginSuccess(i, ReloadResult(kind))
    /\ reports' = [reports EXCEPT ![i] = @ + LoginReports(fired')]
    /\ ev' = Event("reloadResolved", i)
    /\ UNCHANGED <<props, life, gapiLoaded, authLoaded, initEffect, reloadEffect,
                   scripts, scriptState, loadListeners, errorListeners, loadReq,
                   authInst, currentUser, listeners, initThen, signInP, signOutA,
                   signOutV>>

\* reloadAuthResponse() rejects (index.ts:233)
ReloadReject(i) ==
    /\ reloadP[i]
    /\ reloadP' = [reloadP EXCEPT ![i] = FALSE]
    /\ fired' = handleLoginFailure(i, ReloadErr)
    /\ ev' = Event("reloadRejected", i)
    /\ UNCHANGED <<props, reports, life, gapiLoaded, authLoaded, initEffect, reloadEffect,
                   scripts, scriptState, loadListeners, errorListeners, loadReq,
                   authInst, currentUser, listeners, initThen, signInP, signOutA,
                   signOutV>>

-----------------------------------------------------------------------------
(* signIn (index.ts:149-170) *)

\* The handlers signIn puts on the vendor's promise (index.ts:165-166)
OnSignInResolved(i, response) == handleLoginSuccess(i, response)
OnSignInRejectedMut(i, error) == <<>>
OnSignInRejected(i, error) == handleLoginFailure(i, error)

\* The caller calls signIn(): a vendor signIn when authLoaded and an auth
\* instance exists, otherwise nothing.
SignIn(i) ==
    /\ Mounted(i)
    /\ InFlight < MaxPending
    /\ IF CallGuard(authLoaded[i]) /\ HasAuthInstance
       THEN /\ signInP' = [signInP EXCEPT ![i] = @ + 1]
            /\ fired' = <<Call("googleAuth.signIn", i, SignInOptions)>>
       ELSE /\ UNCHANGED signInP
            /\ fired' = <<>>
    /\ ev' = Event("signIn", i)
    /\ UNCHANGED <<props, reports, life, gapiLoaded, authLoaded, initEffect, reloadEffect,
                   scripts, scriptState, loadListeners, errorListeners, loadReq,
                   authInst, currentUser, listeners, initThen, reloadP, signOutA,
                   signOutV>>

\* The vendor's signIn resolves with the user who signed in; the vendor
\* tells the isSignedIn listeners when the signed-in state changed.
SignInResolve(i) ==
    /\ signInP[i] > 0
    /\ authInst = "resolved"
    /\ signInP' = [signInP EXCEPT ![i] = @ - 1]
    /\ \E u \in Users :
        /\ currentUser' = u
        /\ fired' = Notify(u) \o OnSignInResolved(i, u)
    /\ ev' = Event("signInResolved", i)
    /\ UNCHANGED <<props, reports, life, gapiLoaded, authLoaded, initEffect, reloadEffect,
                   scripts, scriptState, loadListeners, errorListeners, loadReq,
                   authInst, listeners, initThen, reloadP, signOutA, signOutV>>

\* The vendor's signIn rejects (popup closed, access denied, ...).
SignInReject(i) ==
    /\ signInP[i] > 0
    /\ signInP' = [signInP EXCEPT ![i] = @ - 1]
    /\ fired' = OnSignInRejected(i, SignInErr)
    /\ ev' = Event("signInRejected", i)
    /\ UNCHANGED <<props, reports, life, gapiLoaded, authLoaded, initEffect, reloadEffect,
                   scripts, scriptState, loadListeners, errorListeners, loadReq,
                   authInst, currentUser, listeners, initThen, reloadP, signOutA,
                   signOutV>>

-----------------------------------------------------------------------------
(* signOut (index.ts:172-193) *)

\* The handler of the vendor's signOut promise (index.ts:180-186); there is
\* no rejection handler.
OnSignOutResolvedMut(i) ==
    InvokeIf("onLogoutSuccess", i, Undefined) \o <<Call("googleAuth.disconnect", i, Undefined)>>
OnSignOutResolved(i) ==
    <<Call("googleAuth.disconnect", i, Undefined)>> \o InvokeIf("onLogoutSuccess", i, Undefined)
OnSignOutRejected(i) == <<>>

\* The rejection handler of googleAuth.then (index.ts:189): onLogoutFailure
\* is called without a guard.
OnSignOutAuthRejected(i) == Invoke("onLogoutFailure", i, InitErr)

\* The caller calls signOut(): handlers on the auth instance when authLoaded
\* and an auth instance exists, otherwise nothing.
SignOut(i) ==
    /\ Mounted(i)
    /\ InFlight < MaxPending
    /\ IF CallGuard(authLoaded[i]) /\ HasAuthInstance
       THEN /\ signOutA' = [signOutA EXCEPT ![i] = @ + 1]
            /\ fired' = <<Call("googleAuth.then", i, Undefined)>>
       ELSE /\ UNCHANGED signOutA
            /\ fired' = <<>>
    /\ ev' = Event("signOut", i)
    /\ UNCHANGED <<props, reports, life, gapiLoaded, authLoaded, initEffect, reloadEffect,
                   scripts, scriptState, loadListeners, errorListeners, loadReq,
                   authInst, currentUser, listeners, initThen, reloadP, signInP,
                   signOutV>>

\* The auth instance has settled: a resolved one has the handler call the
\* vendor's signOut (index.ts:179), a rejected one calls onLogoutFailure.
SignOutAuthSettle(i) ==
    /\ signOutA[i] > 0
    /\ authInst \in {"resolved", "rejected"}
    /\ signOutA' = [signOutA EXCEPT ![i] = @ - 1]
    /\ IF authInst = "resolved"
       THEN /\ signOutV' = [signOutV EXCEPT ![i] = @ + 1]
            /\ fired' = <<Call("googleAuth.signOut", i, Undefined)>>
            /\ ev' = Event("signOutStarted", i)
       ELSE /\ UNCHANGED signOutV
            /\ fired' = OnSignOutAuthRejected(i)
            /\ ev' = Event("signOutAuthRejected", i)
    /\ UNCHANGED <<props, reports, life, gapiLoaded, authLoaded, initEffect, reloadEffect,
                   scripts, scriptState, loadListeners, errorListeners, loadReq,
                   authInst, currentUser, listeners, initThen, reloadP, signInP>>

\* The vendor's signOut resolves: the user is signed out.
SignOutResolve(i) ==
    /\ signOutV[i] > 0
    /\ signOutV' = [signOutV EXCEPT ![i] = @ - 1]
    /\ currentUser' = SignedOutUser
    /\ fired' = Notify(SignedOutUser) \o OnSignOutResolved(i)
    /\ ev' = Event("signOutResolved", i)
    /\ UNCHANGED <<props, reports, life, gapiLoaded, authLoaded, initEffect, reloadEffect,
                   scripts, scriptState, loadListeners, errorListeners, loadReq,
                   authInst, listeners, initThen, reloadP, signInP, signOutA>>

\* The vendor's signOut rejects.
SignOutReject(i) ==
    /\ signOutV[i] > 0
    /\ signOutV' = [signOutV EXCEPT ![i] = @ - 1]
    /\ fired' = OnSignOutRejected(i)
    /\ ev' = Event("signOutRejected", i)
    /\ UNCHANGED <<props, reports, life, gapiLoaded, authLoaded, initEffect, reloadEffect,
                   scripts, scriptState, loadListeners, errorListeners, loadReq,
                   authInst, currentUser, listeners, initThen, reloadP, signInP,
                   signOutA>>

\* The session changes without the hook: the token expires or is revoked, or
\* the user signs in elsewhere.  The vendor tells the isSignedIn listeners.
SessionChange ==
    /\ authInst = "resolved"
    /\ \E u \in Users \cup {SignedOutUser} :
        /\ (u \in Users) # IsSignedIn
        /\ currentUser' = u
        /\ fired' = Notify(u)
    /\ ev' = Event("sessionChange", 0)
    /\ UNCHANGED <<props, reports, life, gapiLoaded, authLoaded, initEffect, reloadEffect,
                   scripts, scriptState, loadListeners, errorListeners, loadReq,
                   authInst, listeners, initThen, reloadP, signInP, signOutA,
                   signOutV>>

-----------------------------------------------------------------------------
(* Specifications *)

Next ==
    \/ \E i \in Instances : Mount(i)
    \/ \E i \in Instances : Unmount(i)
    \/ ScriptLoad
    \/ ScriptError
    \/ \E i \in Instances : RunInitEffect(i)
    \/ PageInitsAuth
    \/ \E i \in Instances : Auth2Loaded(i)
    \/ \E i \in Instances : Auth2LoadError(i)
    \/ AuthResolve
    \/ AuthReject
    \/ \E i \in Instances : InitSettle(i)
    \/ \E i \in Instances : RunReloadEffect(i)
    \/ \E i \in Instances : ReloadResolve(i)
    \/ \E i \in Instances : ReloadReject(i)
    \/ \E i \in Instances : SignIn(i)
    \/ \E i \in Instances : SignInResolve(i)
    \/ \E i \in Instances : SignInReject(i)
    \/ \E i \in Instances : SignOut(i)
    \/ \E i \in Instances : SignOutAuthSettle(i)
    \/ \E i \in Instances : SignOutResolve(i)
    \/ \E i \in Instances : SignOutReject(i)
    \/ SessionChange

\* Every combination of supplied callbacks, the configuration at its defaults
Spec == Init /\ [][Next]_vars

\* Every callback supplied, the configuration varied
SpecConfig == InitConfig /\ [][Next]_vars

-----------------------------------------------------------------------------
(* Reading the calls of the last step *)

\* The calls of cb in fired
CallsOf(cb) == SelectSeq(fired, LAMBDA e : e.cb = cb)

\* The calls of cb made on behalf of instance i in fired
CallsFor(cb, i) == SelectSeq(fired, LAMBDA e : e.cb = cb /\ e.inst = i)

\* How often a supplied callback is to be called where the code guards it
Once(cb) == IF Supplied(cb) THEN 1 ELSE 0

-----------------------------------------------------------------------------
(* C1 *)

\* C1: at most one element with id 'google-script' is ever in the document
\* head, and an element is appended only by a mount that found none.
C1_ScriptInjectedOnce ==
    /\ [](Cardinality(scripts) <= 1)
    /\ [][scripts' # scripts =>
            /\ scripts = {}
            /\ ev'.type = "mount"
            /\ scripts' = {ev'.inst}]_vars

\* A second instance mounted while the script of an unmounted first instance
\* was still in the head, and appended nothing.
C1_Witness ==
    /\ Cardinality(scripts) = 1
    /\ \E i, j \in Instances :
        /\ i \in scripts /\ life[i] = "unmounted"
        /\ j \notin scripts /\ life[j] = "mounted"

-----------------------------------------------------------------------------
(* C2 *)

\* C2: with clientId and no callback at all, no event makes the hook call a
\* callback that was not supplied.
C2_NoUndefinedCallbackCalled ==
    props.callbacks = {} =>
        \A k \in DOMAIN fired :
            ~(fired[k].cb = "TypeError" /\ fired[k].arg \in Callbacks)

-----------------------------------------------------------------------------
(* C3 *)

\* C3: a vendor signIn that resolves calls onLoginSuccess (when supplied)
\* exactly once and onLoginFailure not at all; one that rejects calls
\* onLoginFailure (when supplied) exactly once with the vendor's error and
\* onLoginSuccess not at all; each settlement answers one pending call.
C3_SignInOutcome ==
    /\ [](ev.type = "signInResolved" =>
            /\ Len(CallsFor("onLoginSuccess", ev.inst)) = Once("onLoginSuccess")
            /\ Len(CallsOf("onLoginSuccess")) = Once("onLoginSuccess")
            /\ CallsOf("onLoginFailure") = <<>>)
    /\ [](ev.type = "signInRejected" =>
            /\ CallsOf("onLoginFailure") =
                 IF Supplied("onLoginFailure")
                 THEN <<Call("onLoginFailure", ev.inst, SignInErr)>> ELSE <<>>
            /\ CallsOf("onLoginSuccess") = <<>>)
    /\ [][ev'.type \in {"signInResolved", "signInRejected"} =>
            /\ signInP[ev'.inst] > 0
            /\ signInP'[ev'.inst] = signInP[ev'.inst] - 1]_vars

\* A vendor signIn rejected and onLoginFailure was called with its error.
C3_Witness ==
    /\ ev.type = "signInRejected"
    /\ Len(CallsOf("onLoginFailure")) = 1

-----------------------------------------------------------------------------
(* C4 *)

\* C4: once the auth client is usable for an instance (its handlers ran on
\* the resolved auth instance) and onLoginChange was supplied, onLoginChange
\* is an isSignedIn listener of the vendor, on both initialisation paths.
C4_LoginChangeRegistered ==
    \A i \in Instances :
        (Supplied("onLoginChange") /\ initThen[i] = "settled" /\ authInst = "resolved")
            => i \in listeners

-----------------------------------------------------------------------------
(* C5 *)

\* The logout-related calls of the last step, in order
LogoutCalls ==
    SelectSeq(fired, LAMBDA e : e.cb \in {"googleAuth.disconnect",
                                          "onLogoutSuccess", "onLogoutFailure"})

-----------------------------------------------------------------------------
(* C6 *)

-----------------------------------------------------------------------------
(* C7 *)

\* C7: each failure to load calls a supplied onLoadFailure exactly once with
\* the error and no login callback: the script's 'error' event (reported while
\* a hook instance is mounted, and leaving every instance not loaded), the
\* error callback of gapi.load('auth2'), and a rejected auth2.init.
C7_LoadFailureReported ==
    /\ ev.type = "scriptError" =>
          /\ (Supplied("onLoadFailure") /\ \E i \in Instances : Mounted(i)) =>
                /\ Len(CallsOf("onLoadFailure")) = 1
                /\ CallsOf("onLoadFailure")[1].arg = ScriptErrorEvent
          /\ \A i \in Instances : ~gapiLoaded[i]
    /\ (ev.type = "auth2LoadError" /\ Supplied("onLoadFailure")) =>
          CallsOf("onLoadFailure") = <<Call("onLoadFailure", ev.inst, Auth2LoadErr)>>
    /\ (ev.type = "initRejected" /\ Supplied("onLoadFailure")) =>
          CallsOf("onLoadFailure") = <<Call("onLoadFailure", ev.inst, InitErr)>>
    /\ ev.type \in {"scriptError", "auth2LoadError", "initRejected"} =>
          /\ CallsOf("onLoginSuccess") = <<>>
          /\ CallsOf("onLoginFailure") = <<>>

-----------------------------------------------------------------------------
(* C8 *)

\* The scope array joined by single spaces, written out for the arrays the
\* properties are drawn from
ExpectedScope ==
    CASE scope = <<"profile">> -> "profile"
      [] scope = <<"profile", "email">> -> "profile email"

\* The fields of the client configuration that C8 and its amendment agree on
ConfigFieldsDerived(cfg) ==
    /\ cfg.client_id = props.clientId
    /\ cfg.cookie_policy = cookiePolicy
    /\ cfg.fetch_basic_profile = fetchBasicProfile
    /\ cfg.hosted_domains = hostedDomains
    /\ cfg.ux_mode = uxMode
    /\ cfg.scope = ExpectedScope

\* C8 as stated: the configuration passed to gapi.auth2.init takes every
\* field from the property of the same name, redirect_uri = redirectUri
\* included, and the options passed to the vendor's signIn carry the same
\* scope, ux_mode and redirect_uri as that configuration.
C8_ConfigOneToOne ==
    \A k \in DOMAIN fired :
        /\ fired[k].cb = "gapi.auth2.init" =>
              /\ ConfigFieldsDerived(fired[k].arg)
              /\ fired[k].arg.redirect_uri = redirectUri
        /\ fired[k].cb = "googleAuth.signIn" =>
              /\ fired[k].arg.scope = ClientConfig.scope
              /\ fired[k].arg.ux_mode = ClientConfig.ux_mode
              /\ fired[k].arg.redirect_uri = ClientConfig.redirect_uri

\* C8, amended: as stated, except that the configuration's redirect_uri is
\* redirectUri only when uxMode is 'redirect' and the empty string otherwise,
\* and that the signIn options carry redirect_uri = redirectUri whatever the
\* uxMode, which is the configuration's value exactly when uxMode is
\* 'redirect'.
C8_ConfigDerivation ==
    \A k \in DOMAIN fired :
        /\ fired[k].cb = "gapi.auth2.init" =>
              /\ ConfigFieldsDerived(fired[k].arg)
              /\ fired[k].arg.redirect_uri =
                    IF uxMode = "redirect" THEN redirectUri ELSE ""
        /\ fired[k].cb = "googleAuth.signIn" =>
              /\ fired[k].arg.scope = ClientConfig.scope
              /\ fired[k].arg.ux_mode = ClientConfig.ux_mode
              /\ fired[k].arg.redirect_uri = redirectUri
              /\ uxMode = "redirect" =>
                    fired[k].arg.redirect_uri = ClientConfig.redirect_uri

\* auth2.init was called with uxMode 'popup', a redirectUri and a scope of
\* two entries given.
C8_Witness ==
    /\ uxMode = "popup"
    /\ redirectUri # Undefined
    /\ Len(scope) = 2
    /\ CallsOf("gapi.auth2.init") # <<>>

-----------------------------------------------------------------------------
(* C9 *)

\* C9: every payload handed to onLoginSuccess renames the vendor's user
\* object field by field, and onLoginSuccess is called only when a signIn
\* resolved, when init found the user signed in, on an existing instance, or
\* when reloadAuthResponse resolved.
C9_PayloadRenamesUser ==
    \A k \in DOMAIN fired :
        fired[k].cb = "onLoginSuccess" =>
            /\ ev.type \in {"signInResolved", "initResolved",
                            "existingResolved", "reloadResolved"}
            /\ currentUser \in Users
            /\ fired[k].arg.accessToken = currentUser.authResponse.access_token
            /\ fired[k].arg.tokenId = currentUser.authResponse.id_token
            /\ fired[k].arg.tokenObject = currentUser.authResponse
            /\ fired[k].arg.profile.googleId = currentUser.basicProfile.id
            /\ fired[k].arg.profile.imageUrl = currentUser.basicProfile.imageUrl
            /\ fired[k].arg.profile.email = currentUser.basicProfile.email
            /\ fired[k].arg.profile.name = currentUser.basicProfile.name
            /\ fired[k].arg.profile.givenName = currentUser.basicProfile.givenName
            /\ fired[k].arg.profile.familyName = currentUser.basicProfile.familyName
            /\ DOMAIN fired[k].arg = {"accessToken", "profile", "tokenId", "tokenObject"}

\* onLoginSuccess was called because init found the user signed in.
C9_Witness ==
    /\ ev.type = "initResolved"
    /\ CallsOf("onLoginSuccess") # <<>>

-----------------------------------------------------------------------------
(* C10 *)

\* C10: authLoaded implies gapiLoaded; neither flag goes back to false;
\* gapiLoaded becomes true only by the script's 'load' event and authLoaded
\* only in the success callback of the instance's gapi.load('auth2').
C10_ForwardOnly ==
    /\ [](\A i \in Instances : authLoaded[i] => gapiLoaded[i])
    /\ [][\A i \in Instances :
            /\ gapiLoaded[i] => gapiLoaded'[i]
            /\ authLoaded[i] => authLoaded'[i]
            /\ (~gapiLoaded[i] /\ gapiLoaded'[i]) =>
                  /\ ev'.type = "scriptLoad"
                  /\ scriptState = "loading" /\ scriptState' = "loaded"
            /\ (~authLoaded[i] /\ authLoaded'[i]) =>
                  /\ ev' = Event("auth2Loaded", i)
                  /\ loadReq[i] = "pending" /\ loadReq'[i] = "ok"]_vars

\* An instance reached 'auth client ready'.
C10_Witness == \E i \in Instances : gapiLoaded[i] /\ authLoaded[i]

-----------------------------------------------------------------------------
(* C11 *)

\* C11: the vendor's signIn, signOut and disconnect are called only on an
\* auth instance that has resolved: never while its initialisation is
\* pending, and never after it was rejected.
C11_VendorCallsOnlyWhenReady ==
    \A k \in DOMAIN fired :
        fired[k].cb \in {"googleAuth.signIn", "googleAuth.signOut",
                         "googleAuth.disconnect"}
            => authInst = "resolved"

-----------------------------------------------------------------------------
(* C12 *)

\* The state other than the record of the last step
hookState == <<props, life, gapiLoaded, authLoaded, initEffect, reloadEffect,
               scripts, scriptState, loadListeners, errorListeners, loadReq,
               authInst, currentUser, listeners, initThen, reloadP, signInP,
               signOutA, signOutV>>

\* C12: a signIn or signOut call on an instance whose authLoaded is false
\* makes no call at all (no vendor call, no callback) and changes no state.
C12_NoOpUntilAuthLoaded ==
    [][(ev'.type \in {"signIn", "signOut"} /\ ~authLoaded[ev'.inst]) =>
            /\ fired' = <<>>
            /\ hookState' = hookState]_vars

\* signOut was called on an instance whose script had loaded but whose
\* gapi.load('auth2') had not called back, while an auth instance existed.
C12_Witness ==
    /\ ev.type = "signOut"
    /\ gapiLoaded[ev.inst] /\ ~authLoaded[ev.inst]
    /\ HasAuthInstance
    /\ fired = <<>>

-----------------------------------------------------------------------------
(* C13 *)

\* Nothing that leads instance i to 'auth client ready' is still to happen:
\* the script has loaded, the instance's [gapiLoaded] effect is not due, and
\* its gapi.load('auth2') is neither in flight nor failed.
NothingPending(i) ==
    /\ scriptState = "loaded"
    /\ ~initEffect[i]
    /\ loadReq[i] \notin {"pending", "err"}

\* C13: every mounted instance becomes ready once the script has loaded and
\* the vendor's auth2 load has succeeded, also an instance that mounted when
\* the script element was already there: a mounted instance for which
\* nothing is pending any more has gapiLoaded and authLoaded true.
C13_EveryInstanceBecomesReady ==
    \A i \in Instances :
        (Mounted(i) /\ NothingPending(i)) => (gapiLoaded[i] /\ authLoaded[i])

-----------------------------------------------------------------------------
(* C14 *)

\* C14: during one load of the hook onLoginSuccess is called at most once
\* without a signIn: the report made when the initialisation resolves and the
\* report made when reloadAuthResponse resolves never both happen.
C14_AtMostOneLoginReport == \A i \in Instances : reports[i] <= 1

-----------------------------------------------------------------------------
(* C15 *)

\* C15: on every path that calls handleLoginSuccess without a signIn (the
\* auth2.init success handler, the existing-instance handler, the resolution
\* of reloadAuthResponse) the vendor's isSignedIn is true at the call.
C15_ReportsOnlySignedIn ==
    (/\ ev.type \in {"initResolved", "existingResolved", "reloadResolved"}
     /\ CallsOf("handleLoginSuccess") # <<>>)
        => IsSignedIn

-----------------------------------------------------------------------------
(* C16 *)

\* C16: the hook calls gapi.auth2.init only in the gapi.load callback, only
\* when getAuthInstance() returns no instance, and once there; from then on
\* an instance exists, so init is called at most once in the document; a
\* callback that finds an instance puts its handlers on that instance.
C16_InitAtMostOnce ==
    /\ [][CallsOf("gapi.auth2.init")' # <<>> =>
            /\ authInst = "none"
            /\ authInst' # "none"
            /\ ev'.type = "auth2Loaded"
            /\ Len(CallsOf("gapi.auth2.init")') = 1]_vars
    /\ [][authInst # "none" => authInst' # "none"]_vars
    /\ [][(ev'.type = "auth2Loaded" /\ authInst # "none") =>
            /\ CallsOf("gapi.auth2.init")' = <<>>
            /\ authInst' = authInst
            /\ initThen'[ev'.inst] = "exist"]_vars

\* The hook called auth2.init after another instance had mounted and
\* unmounted.
C16_Witness ==
    /\ CallsOf("gapi.auth2.init") # <<>>
    /\ \E j \in Instances : life[j] = "unmounted"

-----------------------------------------------------------------------------
(* C17 *)

\* C17: once the instance that injected the script has unmounted, a 'load'
\* or 'error' event of the script calls neither setGapiLoaded(true) for that
\* instance nor onLoadFailure, and the script element stays in the document.
C17_UnmountRemovesListeners ==
    /\ ev.type \in {"scriptLoad", "scriptError"} =>
           \A k \in DOMAIN fired :
               fired[k].cb \in {"setGapiLoaded", "onLoadFailure"}
                   => life[fired[k].inst] # "unmounted"
    /\ ev.type = "unmount" => scripts # {}

=============================================================================
